---- MODULE Spec2Model ----
(***************************************************************************)
(* Model of bff_huffman_decompress.c: the pack(1) decoder made of          *)
(* unpack_parse_header (Tree Builder), unpack_decode (Bit Decoder) and     *)
(* unpack_descriptor_fini, driven by unpack().                             *)
(*                                                                         *)
(* One behaviour is one decode session over one input byte string.  The    *)
(* loops of the source are unrolled into one action per iteration of the   *)
(* count loop, per level of the symbol loop, per input byte fetched and    *)
(* per bit decoded.  maybe_err/maybe_errx have empty bodies in the source: *)
(* a call records its message in errlog and execution falls through.       *)
(***************************************************************************)
EXTENDS Integers, Sequences, FiniteSets, TLC

\* ------------------------------------------------------------------ bounds
\* longest free-form tail (counts, symbols, bitstream) after the depth byte
MaxTail == 5
\* longest bitstream appended to a prepared container prefix
MaxFixTail == 2
\* longest tail after a depth byte of 0 (every bit there branches on garbage)
MaxUBTail == 1

\* ---------------------------------------------------------- program constants
PACK_HEADER_LENGTH == 1
HTREE_MAXLEVEL == 24
\* the "symbol_size > 256" limit of unpack_parse_header
MaxSymbolSize == 256
\* stdio's EOF
EOF == -1
\* calloc()ed pointer slots of tree[] hold NULL until the symbol loop sets them
NullOff == -1

\* ------------------------------------------------------------------- inputs
\* byte values used for counts, symbols and bitstream bytes of free-form tails
Alphabet == {0, 1, 65, 136}
\* depth bytes of free-form containers
DepthBytes == {1, 2, 3}
\* values an uninitialised hdr[0] may hold when read() returned no byte
UninitBytes == {0, 1, 25}
\* values read from outside an allocated table
GarbageInts == {0, 1}
GarbageBytes == {0, 255}
\* the contents of the memory around zero-length tables: the integers and the
\* pointer found there, and what following that pointer does; fixed for a run
WildChoices ==
    [inodes : GarbageInts, syms : GarbageInts, byte : GarbageBytes,
     deref : {"crash", "eob", "byte"}]
\* placeholder while every table access of the run is inside its table
NoWild == [inodes |-> 0, syms |-> 0, byte |-> 0, deref |-> "crash"]

SeqsUpTo(S, n) == UNION {[1..k -> S] : k \in 0..n}

\* a degenerate chain tree of depth d: one leaf on every level but the last,
\* the last level holding one transmitted leaf and EOB (count byte 0)
Chain(d) == [k \in 1..d |-> IF k < d THEN 1 ELSE 0]
ChainContainer(d) == <<d>> \o Chain(d) \o [k \in 1..d |-> 65]

Prefixes ==
    { <<1, 2, 65, 66>>,
      <<2, 1, 0, 65, 66>>,
      <<3, 0, 0, 0, 65>>,
      <<3, 0, 0, 1, 65, 66>>,
      <<3, 1, 1, 0, 65, 66, 67>>,
      ChainContainer(24),
      ChainContainer(25) }

Inputs ==
    {<< >>}
    \cup {<<d>> \o t : d \in DepthBytes, t \in SeqsUpTo(Alphabet, MaxTail)}
    \cup {<<0>> \o t : t \in SeqsUpTo(Alphabet, MaxUBTail)}
    \cup {p \o t : p \in Prefixes, t \in SeqsUpTo(Alphabet, MaxFixTail)}

Resources == {"symbolsin", "inodesin", "symbol", "tree", "fpIn", "fpOut"}

VARIABLES
    input,              \* the bytes of the input file
    pos,                \* bytes consumed from the input so far
    bytes_in_null,      \* TRUE when unpack() got bytes_in == NULL
    bytes_in,           \* *bytes_in
    pc,                 \* position in unpack()
    treelevels,         \* unpackd.treelevels
    symbol_size,        \* unpackd.symbol_size
    symbolsin,          \* unpackd.symbolsin[0..treelevels]
    inodesin,           \* unpackd.inodesin[0..treelevels]
    symbol,             \* unpackd.symbol, symbol[k+1] is the C entry k
    symbol_eob,         \* unpackd.symbol_eob as an offset from unpackd.symbol
    tree,               \* unpackd.tree[0..treelevels] as offsets into symbol
    uncompressed_size,  \* unpackd.uncompressed_size
    i,                  \* loop index i of the running loop
    thislevel, thiscode, thisbyte, bytes_out,
    out,                \* bytes written to fpOut
    stop,               \* how the decode loop was left: "none", "eob", "eof"
    acquired,           \* descriptor resources obtained so far
    released,           \* per resource, number of free()/fclose() calls
    errlog,             \* messages passed to maybe_err/maybe_errx
    wild,               \* what the memory outside the per-level tables holds
    first               \* <<output, returned size>> of an earlier session on this input

vars == <<input, pos, bytes_in_null, bytes_in, pc, treelevels, symbol_size,
          symbolsin, inodesin, symbol, symbol_eob, tree, uncompressed_size,
          i, thislevel, thiscode, thisbyte, bytes_out, out, stop, acquired,
          released, errlog, wild, first>>

\* ------------------------------------------------------------------ helpers
\* (unsigned char)x and (char)x keep the low eight bits
UChar(x) == x % 256

\* fgetc(fpIn) with n bytes already consumed
Fgetc(n) == IF n < Len(input) THEN input[n + 1] ELSE EOF

\* accepted_bytes(bytes_in, newbytes)
accepted_bytes(cur, newbytes) == IF ~bytes_in_null THEN cur + newbytes ELSE cur

\* maybe_err / maybe_errx: empty bodies, the caller continues
maybe_errx(log, msg) == log \cup {msg}

\* the range test on the depth byte, TRUE when the depth is rejected
InsaneLevels(levels) == levels > HTREE_MAXLEVEL \/ levels < 1

\* variant: a level's internal nodes are all the nodes of the level below
RECURSIVE unpackd_fill_inodesin_NotHalved(_, _, _, _)
unpackd_fill_inodesin_NotHalved(inodes, syms, tl, level) ==
    IF level < tl
    THEN LET r == unpackd_fill_inodesin_NotHalved(inodes, syms, tl, level + 1)
         IN  [r EXCEPT ![level] = r[level + 1] + syms[level + 1]]
    ELSE IF level \in DOMAIN inodes
         THEN [inodes EXCEPT ![level] = 0]
         ELSE inodes

\* the indices of inodesin[] that unpackd_fill_inodesin(unpackd, level) assigns
RECURSIVE InodesWritten(_, _)
InodesWritten(tl, level) ==
    IF level < tl THEN {level} \cup InodesWritten(tl, level + 1) ELSE {level}

\* unpackd_fill_inodesin(unpackd, level)
RECURSIVE unpackd_fill_inodesin(_, _, _, _)
unpackd_fill_inodesin(inodes, syms, tl, level) ==
    IF level < tl
    THEN LET r == unpackd_fill_inodesin(inodes, syms, tl, level + 1)
         IN  [r EXCEPT ![level] = (r[level + 1] + syms[level + 1]) \div 2]
    ELSE IF level \in DOMAIN inodes
         THEN [inodes EXCEPT ![level] = 0]
         ELSE inodes

Init ==
    /\ input \in Inputs
    /\ pos = 0
    /\ bytes_in_null \in BOOLEAN
    /\ bytes_in = 0
    /\ pc = "header"
    /\ treelevels = 0
    /\ symbol_size = 0
    /\ symbolsin = << >>
    /\ inodesin = << >>
    /\ symbol = << >>
    /\ symbol_eob = 0
    /\ tree = << >>
    /\ uncompressed_size = 0
    /\ i = 0
    /\ thislevel = 0
    /\ thiscode = 0
    /\ thisbyte = 0
    /\ bytes_out = 0
    /\ out = << >>
    /\ stop = "none"
    /\ acquired = {}
    /\ released = [r \in Resources |-> 0]
    /\ errlog = {}
    /\ wild = NoWild
    /\ first = << >>

\* unpack_parse_header up to the head of the count loop: read the depth byte,
\* range-check it, open the streams, allocate the three per-level tables
ParseDepth ==
    /\ pc = "header"
    /\ \E hdr0 \in (IF Len(input) >= PACK_HEADER_LENGTH THEN {input[1]} ELSE UninitBytes) :
         /\ pos' = IF Len(input) >= PACK_HEADER_LENGTH THEN PACK_HEADER_LENGTH ELSE 0
         /\ bytes_in' = accepted_bytes(bytes_in, PACK_HEADER_LENGTH)
         /\ uncompressed_size' = 0
         /\ errlog' = IF InsaneLevels(hdr0)
                      THEN maybe_errx(errlog, "Huffman tree has insane levels")
                      ELSE errlog
         /\ acquired' = {"fpIn", "fpOut", "inodesin", "symbolsin", "tree"}
         /\ inodesin' = [l \in 0..(hdr0 - 1) |-> 0]
         /\ symbolsin' = [l \in 0..(hdr0 - 1) |-> 0]
         /\ tree' = [l \in 0..(hdr0 - 1) |-> NullOff]
         /\ treelevels' = hdr0 - 1
         /\ wild' \in (IF hdr0 < 1 THEN WildChoices ELSE {NoWild})
    /\ symbol_size' = 1
    /\ i' = 0
    /\ pc' = "counts"
    /\ UNCHANGED <<first, input, bytes_in_null, symbol, symbol_eob, thislevel,
                   thiscode, thisbyte, bytes_out, out, stop, released>>

\* one iteration of the count loop
ReadCount ==
    /\ pc = "counts"
    /\ i <= treelevels
    /\ LET c == Fgetc(pos)
       IN  /\ thisbyte' = c
           /\ pos' = IF c = EOF THEN pos ELSE pos + 1
           /\ errlog' = IF c = EOF
                        THEN maybe_errx(errlog, "File appears to be truncated")
                        ELSE errlog
           /\ symbolsin' = [symbolsin EXCEPT ![i] = UChar(c)]
           /\ symbol_size' = symbol_size + UChar(c)
    /\ i' = i + 1
    /\ UNCHANGED <<first, wild, input, bytes_in_null, bytes_in, pc, treelevels, inodesin,
                   symbol, symbol_eob, tree, uncompressed_size, thislevel,
                   thiscode, bytes_out, out, stop, acquired, released>>

\* the symbolsin[treelevels]++ adjustments: with a depth byte of 0 the table has
\* no entry and the increment writes before a zero-length allocation, which
\* either goes unnoticed or kills the process
BumpOutcomes(tl) == IF tl >= 0 THEN {"ok"} ELSE {"ok", "crash"}
\* variant: the last level's count is never adjusted
BumpLast_Skipped(syms, tl) == syms

\* variant: the adjustment goes to the first level
BumpLast_First(syms, tl) ==
    IF 0 \in DOMAIN syms THEN [syms EXCEPT ![0] = syms[0] + 1] ELSE syms

BumpLast(syms, tl) ==
    IF tl \in DOMAIN syms THEN [syms EXCEPT ![tl] = syms[tl] + 1] ELSE syms

\* after the count loop: the size check, the symbol table allocation and the
\* first adjustment of the last level's count
CountsDone ==
    /\ pc = "counts"
    /\ i > treelevels
    /\ bytes_in' = accepted_bytes(bytes_in, treelevels)
    /\ errlog' = IF symbol_size > MaxSymbolSize
                 THEN maybe_errx(errlog, "Bad symbol table")
                 ELSE errlog
    /\ symbol' = [k \in 1..symbol_size |-> 0]
    /\ symbol_eob' = 0
    /\ acquired' = acquired \cup {"symbol"}
    /\ symbolsin' = BumpLast(symbolsin, treelevels)
    /\ i' = 0
    /\ \E o \in BumpOutcomes(treelevels) :
         pc' = IF o = "ok" THEN "symbols" ELSE "crashed"
    /\ UNCHANGED <<first, wild, input, pos, bytes_in_null, treelevels, symbol_size,
                   inodesin, tree, uncompressed_size, thislevel, thiscode,
                   thisbyte, bytes_out, out, stop, released>>

\* variant: every level is pointed at the start of the symbol table
FirstSlot_TableStart(eob) == 0

\* unpackd->tree[i] = unpackd->symbol_eob
FirstSlot(eob) == eob

\* variant: one symbol fewer is read for every level that has any
SymbolsToRead_OneLess(n) == IF n > 0 THEN n - 1 ELSE 0

\* number of bytes the inner symbol loop reads for a level holding n leaves
SymbolsToRead(n) == n

\* one iteration of the outer symbol loop: record the level's first slot and
\* read the level's symbols; an EOF is stored as (char)EOF
ReadLevelSymbols ==
    /\ pc = "symbols"
    /\ i <= treelevels
    /\ LET n == SymbolsToRead(symbolsin[i])
           got == IF Len(input) - pos < n THEN Len(input) - pos ELSE n
       IN  /\ tree' = [tree EXCEPT ![i] = FirstSlot(symbol_eob)]
           /\ symbol' = [k \in 1..Len(symbol) |->
                           IF k > symbol_eob /\ k <= symbol_eob + n
                           THEN UChar(Fgetc(pos + (k - symbol_eob) - 1))
                           ELSE symbol[k]]
           /\ symbol_eob' = symbol_eob + n
           /\ pos' = pos + got
           /\ thisbyte' = IF n > 0 THEN Fgetc(pos + n - 1) ELSE thisbyte
           /\ errlog' = IF got < n
                        THEN maybe_errx(errlog, "Symbol table truncated")
                        ELSE errlog
           /\ bytes_in' = accepted_bytes(bytes_in, symbolsin[i])
    /\ i' = i + 1
    /\ UNCHANGED <<first, wild, input, bytes_in_null, pc, treelevels, symbol_size,
                   symbolsin, inodesin, uncompressed_size, thislevel,
                   thiscode, bytes_out, out, stop, acquired, released>>

\* after the symbol loop: the second adjustment and the internal node counts
SymbolsDone ==
    /\ pc = "symbols"
    /\ i > treelevels
    /\ symbolsin' = BumpLast(symbolsin, treelevels)
    /\ inodesin' = unpackd_fill_inodesin(inodesin, symbolsin', treelevels, 0)
    /\ \E o \in BumpOutcomes(treelevels) :
         pc' = IF o = "ok" THEN "decode" ELSE "crashed"
    /\ UNCHANGED <<first, wild, input, pos, bytes_in_null, bytes_in, treelevels,
                   symbol_size, symbol, symbol_eob, tree, uncompressed_size,
                   i, thislevel, thiscode, thisbyte, bytes_out, out, stop,
                   acquired, released, errlog>>

\* unpack_decode: the initialisation before the while loop
DecodeInit ==
    /\ pc = "decode"
    /\ thislevel' = 0
    /\ thiscode' = 0
    /\ thisbyte' = 0
    /\ bytes_out' = 0
    /\ pc' = "fetch"
    /\ UNCHANGED <<first, wild, input, pos, bytes_in_null, bytes_in, treelevels,
                   symbol_size, symbolsin, inodesin, symbol, symbol_eob, tree,
                   uncompressed_size, i, out, stop, acquired, released, errlog>>

\* the while condition: fetch the next input byte or leave the loop at EOF
Fetch ==
    /\ pc = "fetch"
    /\ LET c == Fgetc(pos)
       IN  /\ thisbyte' = c
           /\ IF c = EOF
              THEN /\ pc' = "finished"
                   /\ stop' = "eof"
                   /\ UNCHANGED <<pos, bytes_in, i>>
              ELSE /\ pc' = "bit"
                   /\ pos' = pos + 1
                   /\ bytes_in' = accepted_bytes(bytes_in, 1)
                   /\ i' = 7
                   /\ UNCHANGED stop
    /\ UNCHANGED <<first, wild, input, bytes_in_null, treelevels, symbol_size, symbolsin,
                   inodesin, symbol, symbol_eob, tree, uncompressed_size,
                   thislevel, thiscode, bytes_out, out, acquired, released,
                   errlog>>

\* variant: the bits of a byte are taken from lowest to highest
BitOf_LowestFirst(byte, k) == (byte \div (2 ^ (7 - k))) % 2

\* (thisbyte >> i) & 1
BitOf(byte, k) == (byte \div (2 ^ k)) % 2

\* variant: a code equal to the internal node count is taken for an internal node
IsLeaf_Strict(code, inodes) == code > inodes

\* "Did we got a symbol?": the code references a leaf of the level
IsLeaf(code, inodes) == code >= inodes

\* the bound test on the in-level index, TRUE when the file is reported corrupt
IndexTooLarge(inlevelindex, syms) == inlevelindex > syms

\* variant: the EOB test never succeeds
IsEob_Never(off, eob) == FALSE

\* thissymbol == unpackd->symbol_eob
IsEob(off, eob) == off = eob

\* variant: an emitted byte is not counted
CountOut_Forgotten(n) == n

\* bytes_out++
CountOut(n) == n + 1

\* what the read through thissymbol yields: the EOB test, a stored byte, or,
\* for a pointer outside the symbol table, whatever the process finds there
Lookup(known, inlevelindex) ==
    IF known /\ tree[thislevel] # NullOff
    THEN LET off == tree[thislevel] + inlevelindex
         IN  IF IsEob(off, symbol_eob)
             THEN {[kind |-> "eob", byte |-> 0]}
             ELSE IF off \in 0..(Len(symbol) - 1)
             THEN {[kind |-> "byte", byte |-> UChar(symbol[off + 1])]}
             ELSE {[kind |-> "crash", byte |-> 0]}
                  \cup {[kind |-> "byte", byte |-> g] : g \in GarbageBytes}
    ELSE {[kind |-> wild.deref, byte |-> wild.byte]}

\* one iteration of the for loop over the bits of thisbyte
Bit ==
    /\ pc = "bit"
    /\ LET code == 2 * thiscode + BitOf(thisbyte, i)
           known == thislevel \in DOMAIN inodesin
       IN  \E inodes \in (IF known THEN {inodesin[thislevel]} ELSE {wild.inodes}),
              syms \in (IF known THEN {symbolsin[thislevel]} ELSE {wild.syms}) :
             IF IsLeaf(code, inodes)
             THEN LET inlevelindex == code - inodes
                  IN  /\ errlog' = IF IndexTooLarge(inlevelindex, syms)
                                   THEN maybe_errx(errlog, "File corrupt")
                                   ELSE errlog
                      /\ \E look \in Lookup(known, inlevelindex) :
                           CASE look.kind = "eob" ->
                                  /\ pc' = "finished"
                                  /\ stop' = "eob"
                                  /\ thiscode' = code
                                  /\ UNCHANGED <<thislevel, i, out, bytes_out>>
                             [] look.kind = "byte" ->
                                  /\ out' = Append(out, look.byte)
                                  /\ bytes_out' = CountOut(bytes_out)
                                  /\ thislevel' = 0
                                  /\ thiscode' = 0
                                  /\ i' = i - 1
                                  /\ pc' = IF i = 0 THEN "fetch" ELSE "bit"
                                  /\ UNCHANGED stop
                             [] look.kind = "crash" ->
                                  /\ pc' = "crashed"
                                  /\ thiscode' = code
                                  /\ UNCHANGED <<thislevel, i, out, bytes_out, stop>>
             ELSE /\ thiscode' = code
                  /\ thislevel' = thislevel + 1
                  /\ errlog' = IF thislevel + 1 > treelevels
                               THEN maybe_errx(errlog, "File corrupt")
                               ELSE errlog
                  /\ i' = i - 1
                  /\ pc' = IF i = 0 THEN "fetch" ELSE "bit"
                  /\ UNCHANGED <<out, bytes_out, stop>>
    /\ UNCHANGED <<first, wild, input, pos, bytes_in_null, bytes_in, treelevels,
                   symbol_size, symbolsin, inodesin, symbol, symbol_eob, tree,
                   uncompressed_size, thisbyte, acquired, released>>

\* variant: unpack_decode leaves the size field as the Tree Builder reset it
SizeAfterDecode_Untouched(n) == 0

\* the value unpack_decode leaves in uncompressed_size
SizeAfterDecode(n) == n

\* label finished: the size comparison and the assignment that follows it
Finished ==
    /\ pc = "finished"
    /\ errlog' = IF bytes_out # uncompressed_size
                 THEN maybe_errx(errlog, "Premature EOF")
                 ELSE errlog
    /\ uncompressed_size' = SizeAfterDecode(bytes_out)
    /\ pc' = "fini"
    /\ UNCHANGED <<first, wild, input, pos, bytes_in_null, bytes_in, treelevels,
                   symbol_size, symbolsin, inodesin, symbol, symbol_eob, tree,
                   i, thislevel, thiscode, thisbyte, bytes_out, out, stop,
                   acquired, released>>

\* unpack_descriptor_fini, then unpack returns uncompressed_size
unpack_descriptor_fini ==
    /\ pc = "fini"
    /\ released' = [r \in Resources |-> released[r] + 1]
    /\ pc' = "done"
    /\ UNCHANGED <<first, wild, input, pos, bytes_in_null, bytes_in, treelevels,
                   symbol_size, symbolsin, inodesin, symbol, symbol_eob, tree,
                   uncompressed_size, i, thislevel, thiscode, thisbyte,
                   bytes_out, out, stop, acquired, errlog>>

Next ==
    \/ ParseDepth
    \/ ReadCount
    \/ CountsDone
    \/ ReadLevelSymbols
    \/ SymbolsDone
    \/ DecodeInit
    \/ Fetch
    \/ Bit
    \/ Finished
    \/ unpack_descriptor_fini

Spec == Init /\ [][Next]_vars

\* the program is run a second time on the same input file: the result of the
\* session that returned is kept aside and a fresh session starts
Rerun ==
    /\ pc = "done"
    /\ first = << >>
    /\ first' = <<out, uncompressed_size>>
    /\ pos' = 0
    /\ bytes_in' = 0
    /\ pc' = "header"
    /\ treelevels' = 0
    /\ symbol_size' = 0
    /\ symbolsin' = << >>
    /\ inodesin' = << >>
    /\ symbol' = << >>
    /\ symbol_eob' = 0
    /\ tree' = << >>
    /\ uncompressed_size' = 0
    /\ i' = 0
    /\ thislevel' = 0
    /\ thiscode' = 0
    /\ thisbyte' = 0
    /\ bytes_out' = 0
    /\ out' = << >>
    /\ stop' = "none"
    /\ acquired' = {}
    /\ released' = [r \in Resources |-> 0]
    /\ errlog' = {}
    /\ wild' = NoWild
    /\ UNCHANGED <<input, bytes_in_null>>

NextTwice == Next \/ Rerun

SpecTwice == Init /\ [][NextTwice]_vars

\* --------------------------------------------------------- sanity of the model
TypeOK ==
    /\ pos \in 0..Len(input)
    /\ symbol_eob \in 0..Len(symbol)
    /\ thiscode >= 0 /\ thiscode < 2 ^ 30
    /\ pc \in {"header", "counts", "symbols", "decode", "fetch", "bit",
               "finished", "fini", "done", "crashed"}

\* ------------------------------------------------- vocabulary of the properties
\* the depth byte as the Tree Builder took it
Depth == treelevels + 1
ValidDepth == pc # "header" /\ Depth \in 1..HTREE_MAXLEVEL

RECURSIVE SumFrom(_, _, _)
SumFrom(s, a, b) == IF a > b THEN 0 ELSE s[a] + SumFrom(s, a + 1, b)

\* sum of the count bytes as they stand in the file (all of them present)
HasCounts == Len(input) >= 1 + Depth
TransmittedSum == SumFrom(input, 2, 1 + Depth)

TruncationMessages == {"File appears to be truncated", "Symbol table truncated"}
DecoderStates == {"decode", "fetch", "bit", "finished", "fini", "done"}

\* the code completed by the bit about to be decoded
NextCode == 2 * thiscode + ((thisbyte \div (2 ^ i)) % 2)
AtKnownLevel == pc = "bit" /\ thislevel \in DOMAIN inodesin
ResolvesLeaf == AtKnownLevel /\ NextCode >= inodesin[thislevel]
LeafIndex == NextCode - inodesin[thislevel]
ResolvesToEob == ResolvesLeaf /\ tree[thislevel] + LeafIndex = symbol_eob
ResolvesPastCount == ResolvesLeaf /\ LeafIndex > symbolsin[thislevel]

\* C1: with a depth byte in 1..24, the step that resolves a code to the EOB
\* slot writes nothing and leaves the decode loop, and from then on no output
\* byte is written and no input byte is fetched, whatever input remains
C1_EobStopsDecoding ==
    [][ (ValidDepth /\ (ResolvesToEob \/ stop = "eob"))
        => (out' = out /\ pos' = pos /\ stop' = "eob"
            /\ pc' \in {"finished", "fini", "done"}) ]_vars

C1_Witness ==
    /\ ValidDepth /\ pc = "done" /\ stop = "eob"
    /\ Len(out) > 0 /\ pos < Len(input)

\* C2: a session whose input ran out before any code resolved to EOB never
\* ends as a success returning a byte count
C2_PrematureEndFails == pc = "done" => stop # "eof"

\* C3: a depth byte outside 1..24 is reported and the session stops there,
\* before any count byte is read; a depth byte in 1..24 is not reported
C3_InvalidDepthAborts ==
    /\ (pc # "header" /\ Depth \notin 1..HTREE_MAXLEVEL)
         => /\ "Huffman tree has insane levels" \in errlog
            /\ pc = "counts" /\ i = 0 /\ pos <= PACK_HEADER_LENGTH
    /\ ValidDepth => "Huffman tree has insane levels" \notin errlog

\* C4: when the counts plus one for EOB exceed 256 the session stops at the
\* size check: no symbol is read and no bit is decoded
C4_TooLargeAborts ==
    (pc \notin {"header", "counts"} /\ symbol_size > MaxSymbolSize)
      => /\ "Bad symbol table" \in errlog
         /\ pc = "symbols" /\ i = 0 /\ symbol_eob = 0

\* C5: when the input ends inside the count table or the symbol table the
\* session stops there and the Bit Decoder never runs
C5_TruncationAborts ==
    pc \in DecoderStates => errlog \cap TruncationMessages = {}

\* C6 as stated: the Tree Builder takes sum(counts) symbol bytes, that is
\* 1 + tree_levels + sum(counts) bytes before the bitstream
C6_Original ==
    (pc = "decode" /\ ValidDepth /\ HasCounts
       /\ Len(input) >= 1 + Depth + TransmittedSum)
      => pos = 1 + Depth + TransmittedSum

\* C6: with a depth byte in 1..24 and all table bytes present, the Tree Builder
\* takes sum(counts) + 1 symbol bytes (the last level reads its count plus one),
\* 2 + tree_levels + sum(counts) bytes in all; the entries are the input bytes
\* in order, and the EOB slot is the position right after the last of them,
\* which no input byte fills
C6_SymbolTableBytes ==
    (pc = "decode" /\ ValidDepth /\ HasCounts
       /\ Len(input) >= 2 + Depth + TransmittedSum)
      => /\ pos = 2 + Depth + TransmittedSum
         /\ symbol_eob = TransmittedSum + 1
         /\ symbol_eob = Len(symbol)
         /\ \A k \in 1..symbol_eob : symbol[k] = input[1 + Depth + k]

C6_Witness ==
    /\ pc = "decode" /\ ValidDepth /\ HasCounts
    /\ TransmittedSum > 0
    /\ Len(input) > 2 + Depth + TransmittedSum

\* C7 as stated: the container 01 02 41 42 followed by a bitstream decodes to
\* "AB" with a byte count of 2
C7_Original ==
    (pc = "done" /\ Len(input) >= 5 /\ SubSeq(input, 1, 4) = <<1, 2, 65, 66>>)
      => (out = <<65, 66>> /\ uncompressed_size = 2)

\* C7: the container 02 01 00 41 42 followed by the bitstream byte 88
\* (codes 1 = 'A', 00 = 'B', 01 = EOB) decodes to "AB", stops at EOB and
\* reports a byte count of 2
C7_Scenario ==
    (pc = "done" /\ input = <<2, 1, 0, 65, 66, 136>>)
      => (out = <<65, 66>> /\ uncompressed_size = 2 /\ stop = "eob")

C7_Witness == pc = "done" /\ input = <<2, 1, 0, 65, 66, 136>>

\* C8: the byte count a session returns is the number of bytes written to the
\* output stream
C8_CountIsBytesWritten == pc = "done" => uncompressed_size = Len(out)

C8_Witness == pc = "done" /\ stop = "eof" /\ Len(out) > 0

\* C9: a code whose in-level index exceeds the level's leaf count emits no byte
\* and ends the decoding
C9_CorruptIndexAborts ==
    [][ ResolvesPastCount => (out' = out /\ pc' \notin {"bit", "fetch"}) ]_vars

\* C10: every resource of the descriptor is released exactly once, at the end
\* of the session and not before, however the session ends
C10_ReleasedExactlyOnce ==
    /\ \A r \in Resources : released[r] <= 1
    /\ (\E r \in Resources : released[r] > 0) => pc = "done"
    /\ pc \in {"done", "crashed"} => \A r \in Resources : released[r] = 1

\* the states in which unpack_decode is running
InDecode == pc \in {"decode", "fetch", "bit", "finished"}

\* the tables and sizes the Tree Builder produced
TreeFields ==
    <<treelevels, symbol_size, symbolsin, inodesin, symbol, symbol_eob, tree>>

\* C11 as stated: no step of the Bit Decoder changes any field of the
\* descriptor, uncompressed_size included
C11_Original ==
    [][ InDecode => (TreeFields' = TreeFields
                     /\ uncompressed_size' = uncompressed_size) ]_vars

\* C11: no step of the Bit Decoder changes tree_levels, the leaf counts, the
\* internal node counts, the symbol table or the level offsets; the only field
\* it writes is uncompressed_size, once, at its end, with the number of bytes
\* it wrote to the output
C11_OnlySizeWritten ==
    [][ InDecode =>
          /\ TreeFields' = TreeFields
          /\ pc # "finished" => uncompressed_size' = uncompressed_size
          /\ pc = "finished" => uncompressed_size' = Len(out) ]_vars

C11_Witness ==
    /\ pc = "fini" /\ ValidDepth /\ uncompressed_size > 0
    /\ Len(symbol) > 1 /\ treelevels > 0

\* C12: a session that returns after an earlier session on the same input
\* returned has written the same bytes and returns the same size
C12_SameOutputTwice ==
    (pc = "done" /\ first # << >>)
      => (out = first[1] /\ uncompressed_size = first[2])

\* C13: after the Tree Builder, with a depth byte in 1..24, the deepest level
\* has no internal node, every other level has half (rounded down) of the
\* nodes of the level below it, counted with the adjusted leaf counts, and the
\* fill assigns exactly the entries 0..tree_levels-1
C13_InternalNodeCounts ==
    (pc \in DecoderStates /\ ValidDepth)
      => /\ DOMAIN inodesin = 0..(Depth - 1)
         /\ InodesWritten(treelevels, 0) = 0..(Depth - 1)
         /\ inodesin[Depth - 1] = 0
         /\ \A L \in 0..(Depth - 2) :
              inodesin[L] = (inodesin[L + 1] + symbolsin[L + 1]) \div 2

C13_Witness ==
    /\ pc = "decode" /\ ValidDepth /\ Depth >= 3 /\ HasCounts
    /\ Len(input) >= 2 + Depth + TransmittedSum
    /\ \E L \in 0..(Depth - 2) :
         inodesin[L] > 0 /\ (inodesin[L + 1] + symbolsin[L + 1]) % 2 = 1

\* C14: after the Tree Builder, with a depth byte in 1..24 and the count table
\* present, the last level's leaf count is its count byte plus 2 and every
\* other level's leaf count is its count byte
C14_LastLevelPlusTwo ==
    (pc \in DecoderStates /\ ValidDepth /\ HasCounts)
      => \A L \in 0..treelevels :
           symbolsin[L] = input[2 + L] + (IF L = treelevels THEN 2 ELSE 0)

C14_Witness ==
    /\ pc = "decode" /\ ValidDepth /\ HasCounts /\ Depth >= 2
    /\ input[2] > 0 /\ input[1 + Depth] > 0

\* symbols the Tree Builder stored for a level, read off the adjusted counts
StoredIn(L) == IF L = treelevels THEN symbolsin[L] - 1 ELSE symbolsin[L]
RECURSIVE StoredBefore(_)
StoredBefore(L) == IF L = 0 THEN 0 ELSE StoredBefore(L - 1) + StoredIn(L - 1)
\* the byte at the n-th position of the file as the symbol loop stores it
FileByte(n) == IF n <= Len(input) THEN input[n] ELSE 255

\* C15: after the Tree Builder, with a depth byte in 1..24, a level's offset is
\* the number of symbols stored for the levels above it (0 for level 0, never
\* decreasing), and with the count table present the j-th symbol read for a
\* level sits at that offset plus j
C15_LevelOffsets ==
    (pc \in DecoderStates /\ ValidDepth)
      => \A L \in 0..treelevels :
           /\ tree[L] = StoredBefore(L)
           /\ L > 0 => tree[L] >= tree[L - 1]
           /\ HasCounts =>
                \A j \in 0..(StoredIn(L) - 1) :
                  symbol[tree[L] + j + 1] = FileByte(2 + Depth + StoredBefore(L) + j)

C15_Witness ==
    /\ pc = "decode" /\ ValidDepth /\ HasCounts /\ Depth >= 2
    /\ tree[treelevels] > 0 /\ StoredIn(treelevels) > 0
    /\ Len(input) >= 2 + Depth + TransmittedSum

\* C16: the bit taken at step i of a byte is bit i, i running from 7 down to 0;
\* fetching a byte leaves (level, code) as they are; a decoded bit either emits
\* a byte and resets (level, code) to (0, 0), or emits nothing and keeps the
\* extended code, staying on its level (EOB) or going one level down
C16_MsbFirstCarried ==
    [][ /\ pc = "fetch" =>
             /\ thislevel' = thislevel /\ thiscode' = thiscode
             /\ pc' = "bit" => i' = 7
        /\ (ValidDepth /\ AtKnownLevel) =>
             /\ out' # out => (thislevel' = 0 /\ thiscode' = 0)
             /\ out' = out => /\ thiscode' = NextCode
                              /\ thislevel' \in {thislevel, thislevel + 1}
             /\ pc' = "bit" => i' = i - 1
             /\ pc' = "fetch" => i = 0 ]_vars

C16_Witness ==
    /\ ValidDepth /\ AtKnownLevel /\ i = 7
    /\ thislevel > 0 /\ Len(out) > 0

\* C17: with a depth byte in 1..24 the decoder's level is always one of
\* 0..tree_levels-1
C17_LevelInRange ==
    (ValidDepth /\ pc \in {"fetch", "bit", "finished", "fini", "done"})
      => thislevel \in 0..treelevels

C17_Witness ==
    /\ ValidDepth /\ pc = "bit" /\ treelevels >= 2 /\ thislevel = treelevels

\* C18: with a depth byte in 1..24 a resolved leaf position is never past the
\* EOB slot, and a position that is not the EOB slot lies before it, inside
\* the part of the symbol table the Tree Builder filled
C18_LookupWithinTable ==
    (ValidDepth /\ ResolvesLeaf)
      => LET off == tree[thislevel] + LeafIndex
         IN  /\ off >= 0 /\ off <= symbol_eob
             /\ off # symbol_eob => off + 1 \in 1..Len(symbol)

C18_Witness ==
    /\ ValidDepth /\ ResolvesLeaf /\ treelevels >= 1
    /\ thislevel = treelevels
    /\ tree[thislevel] + LeafIndex = symbol_eob - 1

\* C19: a byte emitted for a code resolved at a level is one of the symbols
\* stored for that level: its in-level index is below the level's stored count
C19_OwnLeavesOnly ==
    [][ (ValidDepth /\ ResolvesLeaf /\ out' # out)
        => LeafIndex < StoredIn(thislevel) ]_vars

\* C20: a supplied bytes_in counter holds the number of input bytes consumed,
\* when the Tree Builder has finished (all its table bytes being present) and
\* when the session has finished
C20_BytesInIsConsumed ==
    (~bytes_in_null /\ ValidDepth /\ HasCounts
       /\ Len(input) >= 2 + Depth + TransmittedSum
       /\ pc \in {"decode", "fini", "done"})
      => bytes_in = pos
====
